---- MODULE Spec2Model ----
(***************************************************************************)
(* Model of the invocation scheduler of mabiki (src/src/debounce.ts):      *)
(* debounce(func, wait, options) and its throttle specialisation.          *)
(*                                                                         *)
(* The closure variables of debounce() are the program state.  The host    *)
(* is modelled by a clock (`now`, the value Date.now() returns) and by the *)
(* set of timer callbacks that were scheduled and have neither fired nor   *)
(* been cancelled (`timers`).  A timer may fire at any time at or after    *)
(* its due time; the host never fires it earlier.                          *)
(*                                                                         *)
(* `throwsOn` is the set of argument lists on which the wrapped callable    *)
(* throws instead of returning, `reentersOn` the set of argument lists on   *)
(* which it may call the debounced function from inside before it returns, *)
(* and `stack` holds one frame for every invocation of the callable that   *)
(* has been entered and has not returned yet.                              *)
(*                                                                         *)
(* `h` is a history variable: it records what the operations did (number   *)
(* of calls and invocations, the last call, the last invocation, the       *)
(* return value of the last operation) and is never read by the program.   *)
(***************************************************************************)
EXTENDS Integers, Sequences, FiniteSets, TLC

VARIABLES
    waitValue, leading, trailing, maxWait, useRAF,      \* configuration
    throwsOn, reentersOn, stack,                        \* the wrapped callable
    lastArgs, lastThis, result, lastCallTime, timerId, lastInvokeTime,
    now, timers,                                        \* host
    h                                                   \* history

vars == <<waitValue, leading, trailing, maxWait, useRAF, throwsOn, reentersOn, stack,
          lastArgs, lastThis, result, lastCallTime, timerId, lastInvokeTime,
          now, timers, h>>

config == <<waitValue, leading, trailing, maxWait, useRAF, throwsOn, reentersOn>>

----
\* Bounds of the model.
MaxTime == 5
MaxCalls == 3
MaxWaitArg == 3
MaxCancels == 1
MaxFlushes == 1
MaxBack == 1

\* The caller passes a different argument list and a different receiver on
\* every call (as the tests do with "a", "b", "c"): the n-th call passes
\* the arguments [n] and the n-th object as `this`.
ArgsOf(n) == <<"arg", n>>
ThisOf(n) == <<"obj", n>>

----
\* Representation of JavaScript's undefined / null in the typed slots.
undefinedTime == -1          \* lastCallTime === undefined
undefinedTimer == 0          \* timerId === undefined (host handles are > 0)
undefinedArgs == <<>>        \* lastArgs / lastThis === undefined
undefinedResult == <<>>      \* result === undefined
nullMaxWait == -1            \* maxWait === null

\* Delay after which the host draws the next frame (requestAnimationFrame).
FrameDelay == 1

Max(a, b) == IF a >= b THEN a ELSE b
Min(a, b) == IF a <= b THEN a ELSE b

----
\* The wrapped callable: returns a value made of its arguments, its
\* this-binding and the ordinal of the invocation (as the tests' `identity`
\* and `++callCount` callables do).
func(thisArg, args, k) == <<args, thisArg, k>>

\* const waitValue = Number(wait) || 0;  wait < 0 stands for an omitted wait.
WaitValueOf(wait) == IF wait < 0 THEN 0 ELSE wait

\* maxWait = "maxWait" in options ? Math.max(Number(options.maxWait) || 0, waitValue) : null
\* mw < 0 stands for an options object without maxWait.
MaxWaitOf(mw, wv) == IF mw < 0 THEN nullMaxWait ELSE Max(mw, wv)

\* Mutant of shouldInvoke: the quiet period is measured from the last
\* invocation instead of from the last call.
shouldInvoke_sinceInvoke(time) ==
    IF lastCallTime = undefinedTime THEN TRUE
    ELSE LET timeSinceLastCall == time - lastInvokeTime
             timeSinceLastInvoke == time - lastInvokeTime
         IN  \/ timeSinceLastCall >= waitValue
             \/ timeSinceLastCall < 0
             \/ (maxWait # nullMaxWait /\ timeSinceLastInvoke >= maxWait)

\* Mutant of shouldInvoke: the maxWait limit is not looked at.
shouldInvoke_noMaxWait(time) ==
    IF lastCallTime = undefinedTime THEN TRUE
    ELSE LET timeSinceLastCall == time - lastCallTime
         IN  \/ timeSinceLastCall >= waitValue
             \/ timeSinceLastCall < 0

\* Mutant of shouldInvoke: a reading before lastCallTime is not looked at.
shouldInvoke_noBackward(time) ==
    IF lastCallTime = undefinedTime THEN TRUE
    ELSE LET timeSinceLastCall == time - lastCallTime
             timeSinceLastInvoke == time - lastInvokeTime
         IN  \/ timeSinceLastCall >= waitValue
             \/ (maxWait # nullMaxWait /\ timeSinceLastInvoke >= maxWait)

\* shouldInvoke(time), on the current state.
shouldInvoke(time) ==
    IF lastCallTime = undefinedTime THEN TRUE
    ELSE LET timeSinceLastCall == time - lastCallTime
             timeSinceLastInvoke == time - lastInvokeTime
         IN  \/ timeSinceLastCall >= waitValue
             \/ timeSinceLastCall < 0
             \/ (maxWait # nullMaxWait /\ timeSinceLastInvoke >= maxWait)

\* remainingWait(time), on the current state.
remainingWait(time) ==
    IF lastCallTime = undefinedTime THEN 0
    ELSE LET timeSinceLastCall == time - lastCallTime
             timeSinceLastInvoke == time - lastInvokeTime
             timeWaiting == waitValue - timeSinceLastCall
         IN  IF maxWait # nullMaxWait
             THEN Min(timeWaiting, maxWait - timeSinceLastInvoke)
             ELSE timeWaiting

\* A handle the host has not given to an outstanding timer and that is not
\* held in the timer slot (handles are only compared for identity).
FreshId(tm, slot) ==
    CHOOSE n \in 1..(Cardinality(tm) + 2) :
        /\ n # slot
        /\ \A t \in tm : t.id # n

\* startTimer(pendingFunc, wait) called while the slot holds `slot` and the
\* outstanding timers are `tm`: the timers afterwards and the handle returned.
startTimer(tm, slot, wait) ==
    LET id == FreshId(tm, slot) IN
    IF useRAF /\ slot # undefinedTimer
    THEN [timers |-> {t \in tm : ~(t.kind = "raf" /\ t.id = slot)}
                        \cup {[id |-> id, kind |-> "raf", due |-> now + FrameDelay]},
          id |-> id]
    ELSE [timers |-> tm \cup {[id |-> id, kind |-> "timeout",
                               due |-> now + Max(wait, 0)]},
          id |-> id]

\* cancelTimer(id): window.cancelAnimationFrame(id) when useRAF, then clearTimeout(id).
cancelTimer(tm, id) ==
    {t \in tm : ~(t.id = id /\ (t.kind = "timeout" \/ useRAF))}

----
\* History bookkeeping.
NoCall == [time |-> -1, args |-> undefinedArgs, this |-> undefinedArgs,
           ret |-> undefinedResult, sync |-> FALSE, fresh |-> FALSE,
           afterCancel |-> FALSE, inner |-> FALSE]
NoInv == [time |-> -1, args |-> undefinedArgs, this |-> undefinedArgs,
          site |-> "none", ncalls |-> 0, callTime |-> -1, prevTime |-> -1,
          ret |-> undefinedResult]

HInit == [ncalls |-> 0, ninv |-> 0, ncancel |-> 0, nflush |-> 0,
          call |-> NoCall, inv |-> NoInv,
          op |-> "init", ret |-> undefinedResult, invoked |-> FALSE,
          threw |-> FALSE, nback |-> 0,
          invSinceCall |-> 0,
          burstStart |-> -1, burstCalls |-> 0, burstInv |-> 0, burstOps |-> FALSE,
          settled |-> TRUE, cancelNinv |-> -1, callsSinceCancel |-> 0]

\* The history after an invocation of func at `site` with the given payload.
HInvoke(hh, site, args, this, ncallsNow, ret) ==
    [hh EXCEPT !.ninv = @ + 1,
               !.inv = [time |-> now, args |-> args, this |-> this, site |-> site,
                        ncalls |-> ncallsNow, callTime |-> hh.call.time,
                        prevTime |-> hh.inv.time, ret |-> ret],
               !.invSinceCall = @ + 1,
               !.burstInv = @ + 1]

\* The history after operation `op` returned `ret`; `invoked` tells whether
\* it invoked func.
HRet(hh, op, ret, invoked) ==
    [hh EXCEPT !.op = op, !.ret = ret, !.invoked = invoked, !.threw = FALSE,
               !.call = IF op = "call"
                        THEN [@ EXCEPT !.ret = ret, !.sync = invoked]
                        ELSE @]

----
\* debounce(func, wait, options): the configuration the closure keeps.
\* wait < 0 stands for an omitted wait, options.maxWait < 0 for an options
\* object without maxWait, hasRAF for a host with window.requestAnimationFrame.
debounce(wait, options, hasRAF) ==
    [waitValue |-> WaitValueOf(wait),
     leading |-> options.leading,
     trailing |-> options.trailing,
     maxWait |-> MaxWaitOf(options.maxWait, WaitValueOf(wait)),
     useRAF |-> (wait < 0 /\ hasRAF)]

\* throttle(func, wait, {leading = true, trailing = true}): debounce with
\* maxWait forced to wait.
throttle(wait, options, hasRAF) ==
    debounce(wait, [leading |-> options.leading, trailing |-> options.trailing,
                    maxWait |-> WaitValueOf(wait)], hasRAF)

Waits == -1..MaxWaitArg
DebounceOptions == [leading : BOOLEAN, trailing : BOOLEAN, maxWait : -1..MaxWaitArg]
ThrottleOptions == [leading : BOOLEAN, trailing : BOOLEAN]

Configs ==
    {debounce(w, o, r) : w \in Waits, o \in DebounceOptions, r \in BOOLEAN}
        \cup {throttle(w, o, r) : w \in Waits, o \in ThrottleOptions, r \in BOOLEAN}

\* The state right after construction with configuration c, for a callable
\* that throws on the argument lists in `bad` and calls the debounced
\* function from inside on those in `again`.
ConstructedWith(c, bad, again) ==
    /\ throwsOn = bad
    /\ reentersOn = again
    /\ stack = <<>>
    /\ waitValue = c.waitValue
    /\ leading = c.leading
    /\ trailing = c.trailing
    /\ maxWait = c.maxWait
    /\ useRAF = c.useRAF
    /\ lastArgs = undefinedArgs
    /\ lastThis = undefinedArgs
    /\ result = undefinedResult
    /\ lastCallTime = undefinedTime
    /\ timerId = undefinedTimer
    /\ lastInvokeTime = 0
    /\ now = 0
    /\ timers = {}
    /\ h = HInit

\* The state right after construction with configuration c, for a callable
\* that throws on the argument lists in `bad`.
ConstructedThrowing(c, bad) == ConstructedWith(c, bad, {})

\* The state right after construction with configuration c, for a callable
\* that returns normally.
Constructed(c) == ConstructedThrowing(c, {})

Init == \E c \in Configs : Constructed(c)

----
\* pending()
pending == timerId # undefinedTimer

\* Mutant of invokeFunc: func is called without its receiver.
invokeFunc_losesThis(time, args, thisArg, op, hh) ==
    LET ret == func(undefinedArgs, args, hh.ninv + 1) IN
    /\ lastArgs' = undefinedArgs
    /\ lastThis' = undefinedArgs
    /\ lastInvokeTime' = time
    /\ result' = ret
    /\ UNCHANGED stack
    /\ h' = HRet(HInvoke(hh, op, args, undefinedArgs, hh.ncalls, ret), op, ret, TRUE)

\* Mutant of invokeFunc: the pending arguments are not cleared.
invokeFunc_keepsArgs(time, args, thisArg, op, hh) ==
    LET ret == func(thisArg, args, hh.ninv + 1) IN
    /\ lastArgs' = args
    /\ lastThis' = thisArg
    /\ lastInvokeTime' = time
    /\ result' = ret
    /\ UNCHANGED stack
    /\ h' = HRet(HInvoke(hh, op, args, thisArg, hh.ncalls, ret), op, ret, TRUE)

\* What the operation gives its caller when func throws: the exception.
exception == <<"exception">>

\* The history after func threw in operation `op`.
HThrow(hh, op, args, this) ==
    [HRet(HInvoke(hh, op, args, this, hh.ncalls, exception), op, exception, TRUE)
        EXCEPT !.threw = TRUE]

\* Mutant of invokeFunc: the bookkeeping is done after func returns, so it
\* is skipped when func throws.
invokeFunc_bookkeepingLast(time, args, thisArg, op, hh) ==
    LET ret == func(thisArg, args, hh.ninv + 1) IN
    IF args \in throwsOn
    THEN /\ UNCHANGED <<lastArgs, lastThis, lastInvokeTime, result, stack>>
         /\ h' = HThrow(hh, op, args, thisArg)
    ELSE /\ lastArgs' = undefinedArgs
         /\ lastThis' = undefinedArgs
         /\ lastInvokeTime' = time
         /\ result' = ret
         /\ UNCHANGED stack
         /\ h' = HRet(HInvoke(hh, op, args, thisArg, hh.ncalls, ret), op, ret, TRUE)

\* invokeFunc(time) with lastArgs = args and lastThis = thisArg; hh is the
\* history so far, op the public operation (or timer callback) running.
\* When func throws, the assignment to result is not reached and the
\* exception leaves invokeFunc and every caller up to the operation.
\* When func may call the debounced function before it returns, the step
\* ends where func.apply enters func: the bookkeeping is done, result is
\* not assigned yet, and the frame keeps the value func will return and
\* the number of calls made so far.
invokeFunc(time, args, thisArg, op, hh) ==
    LET ret == func(thisArg, args, hh.ninv + 1) IN
    /\ lastArgs' = undefinedArgs
    /\ lastThis' = undefinedArgs
    /\ lastInvokeTime' = time
    /\ IF args \in throwsOn
       THEN /\ result' = result
            /\ UNCHANGED stack
            /\ h' = HThrow(hh, op, args, thisArg)
       ELSE IF args \in reentersOn
       THEN /\ result' = result
            /\ stack' = Append(stack, [ret |-> ret, calls |-> hh.ncalls])
            /\ h' = HRet(HInvoke(hh, op, args, thisArg, hh.ncalls, ret), "func", ret, TRUE)
       ELSE /\ result' = ret
            /\ UNCHANGED stack
            /\ h' = HRet(HInvoke(hh, op, args, thisArg, hh.ncalls, ret), op, ret, TRUE)

\* Mutant of trailingEdge: the `trailing` option is not looked at.
trailingEdge_ignoresTrailing(time, op, hh) ==
    /\ timerId' = undefinedTimer
    /\ IF lastArgs # undefinedArgs
       THEN invokeFunc(time, lastArgs, lastThis, op, hh)
       ELSE /\ lastArgs' = undefinedArgs
            /\ lastThis' = undefinedArgs
            /\ UNCHANGED <<result, stack, lastInvokeTime>>
            /\ h' = HRet(hh, op, result, FALSE)

\* Mutant of trailingEdge: with nothing to invoke, result is reset.
trailingEdge_resetsResult(time, op, hh) ==
    /\ timerId' = undefinedTimer
    /\ IF trailing /\ lastArgs # undefinedArgs
       THEN invokeFunc(time, lastArgs, lastThis, op, hh)
       ELSE /\ lastArgs' = undefinedArgs
            /\ lastThis' = undefinedArgs
            /\ result' = undefinedResult
            /\ UNCHANGED stack
            /\ UNCHANGED lastInvokeTime
            /\ h' = HRet(hh, op, undefinedResult, FALSE)

\* Mutant of trailingEdge: with nothing to invoke, the pending arguments
\* are left as they are.
trailingEdge_keepsArgs(time, op, hh) ==
    /\ timerId' = undefinedTimer
    /\ IF trailing /\ lastArgs # undefinedArgs
       THEN invokeFunc(time, lastArgs, lastThis, op, hh)
       ELSE /\ UNCHANGED <<lastArgs, lastThis, result, stack, lastInvokeTime>>
            /\ h' = HRet(hh, op, result, FALSE)

\* trailingEdge(time), run by the timer callback or by flush().
trailingEdge(time, op, hh) ==
    /\ timerId' = undefinedTimer
    /\ IF trailing /\ lastArgs # undefinedArgs
       THEN invokeFunc(time, lastArgs, lastThis, op, hh)
       ELSE /\ lastArgs' = undefinedArgs
            /\ lastThis' = undefinedArgs
            /\ UNCHANGED <<result, stack, lastInvokeTime>>
            /\ h' = HRet(hh, op, result, FALSE)

\* Mutant of leadingEdge: invokes whatever the `leading` option says.
leadingEdge_alwaysInvoke(time, args, thisArg, hh) ==
    LET st == startTimer(timers, timerId, waitValue) IN
    /\ timerId' = st.id
    /\ timers' = st.timers
    /\ invokeFunc(time, args, thisArg, "call", hh)

\* leadingEdge(time), called by debounced() with lastArgs = args and
\* lastThis = thisArg already recorded.
leadingEdge(time, args, thisArg, hh) ==
    LET st == startTimer(timers, timerId, waitValue) IN
    /\ timerId' = st.id
    /\ timers' = st.timers
    /\ IF leading
       THEN invokeFunc(time, args, thisArg, "call", hh)
       ELSE /\ lastInvokeTime' = time
            /\ lastArgs' = args
            /\ lastThis' = thisArg
            /\ UNCHANGED <<result, stack>>
            /\ h' = HRet(hh, "call", result, FALSE)

\* debounced.call(thisArg, args)
Call(args, thisArg) ==
    /\ h.ncalls < MaxCalls
    /\ LET time == now
           isInvoking == shouldInvoke(time)
           newBurst == h.burstStart < 0 \/ time - h.call.time >= waitValue
           hh == [h EXCEPT !.ncalls = @ + 1,
                           !.call = [time |-> time, args |-> args, this |-> thisArg,
                                     ret |-> undefinedResult, sync |-> FALSE,
                                     fresh |-> h.settled,
                                     afterCancel |-> (h.cancelNinv >= 0),
                                     inner |-> (stack # <<>>)],
                           !.settled = FALSE,
                           !.cancelNinv = -1,
                           !.callsSinceCancel = @ + 1,
                           !.invSinceCall = 0,
                           !.burstStart = IF newBurst THEN time ELSE @,
                           !.burstCalls = IF newBurst THEN 1 ELSE @ + 1,
                           !.burstInv = IF newBurst THEN 0 ELSE @,
                           !.burstOps = IF newBurst THEN FALSE ELSE @]
           st == startTimer(timers, timerId, waitValue)
       IN  /\ lastCallTime' = time
           /\ IF isInvoking /\ timerId = undefinedTimer
              THEN leadingEdge(time, args, thisArg, hh)
              ELSE IF isInvoking /\ maxWait # nullMaxWait
              THEN \* invocation in a tight loop
                   /\ timerId' = st.id
                   /\ timers' = st.timers
                   /\ invokeFunc(time, args, thisArg, "call", hh)
              ELSE /\ lastArgs' = args
                   /\ lastThis' = thisArg
                   /\ IF timerId = undefinedTimer
                      THEN timerId' = st.id /\ timers' = st.timers
                      ELSE UNCHANGED <<timerId, timers>>
                   /\ UNCHANGED <<result, stack, lastInvokeTime>>
                   /\ h' = HRet(hh, "call", result, FALSE)
    /\ UNCHANGED <<config, now>>

\* Mutant of timerExpired: a callback that comes too early does not restart
\* the timer.
TimerExpired_noRestart(t) ==
    /\ t \in timers
    /\ t.due <= now
    /\ LET time == now
           rest == timers \ {t}
       IN  IF shouldInvoke(time)
           THEN /\ timers' = rest
                /\ trailingEdge(time, "timer", [h EXCEPT !.settled = TRUE])
           ELSE /\ timers' = rest
                /\ h' = HRet(h, "timer", undefinedResult, FALSE)
                /\ UNCHANGED <<lastArgs, lastThis, result, stack, lastInvokeTime, timerId>>
    /\ UNCHANGED <<config, lastCallTime, now>>

\* The host runs the callback of the outstanding timer t: timerExpired().
TimerExpired(t) ==
    /\ t \in timers
    /\ t.due <= now
    /\ LET time == now
           rest == timers \ {t}
           st == startTimer(rest, timerId, remainingWait(time))
       IN  IF shouldInvoke(time)
           THEN /\ timers' = rest
                /\ trailingEdge(time, "timer", [h EXCEPT !.settled = TRUE])
           ELSE /\ timerId' = st.id
                /\ timers' = st.timers
                /\ h' = HRet(h, "timer", undefinedResult, FALSE)
                /\ UNCHANGED <<lastArgs, lastThis, result, stack, lastInvokeTime>>
    /\ UNCHANGED <<config, lastCallTime, now>>

\* The history after cancel().
HCancel ==
    HRet([h EXCEPT !.ncancel = @ + 1, !.burstOps = TRUE, !.burstStart = -1,
                   !.settled = TRUE, !.cancelNinv = h.ninv,
                   !.callsSinceCancel = 0],
         "cancel", undefinedResult, FALSE)

\* Mutant of cancel: result is reset with the rest.
Cancel_clearsResult ==
    /\ h.ncancel < MaxCancels
    /\ timers' = IF timerId # undefinedTimer THEN cancelTimer(timers, timerId) ELSE timers
    /\ lastInvokeTime' = 0
    /\ lastArgs' = undefinedArgs
    /\ lastCallTime' = undefinedTime
    /\ lastThis' = undefinedArgs
    /\ timerId' = undefinedTimer
    /\ result' = undefinedResult
    /\ UNCHANGED stack
    /\ h' = HCancel
    /\ UNCHANGED <<config, now>>

\* Mutant of cancel: lastCallTime is not reset.
Cancel_keepsLastCallTime ==
    /\ h.ncancel < MaxCancels
    /\ timers' = IF timerId # undefinedTimer THEN cancelTimer(timers, timerId) ELSE timers
    /\ lastInvokeTime' = 0
    /\ lastArgs' = undefinedArgs
    /\ lastThis' = undefinedArgs
    /\ timerId' = undefinedTimer
    /\ h' = HCancel
    /\ UNCHANGED <<config, result, stack, lastCallTime, now>>

\* cancel()
cancel ==
    /\ timers' = IF timerId # undefinedTimer THEN cancelTimer(timers, timerId) ELSE timers
    /\ lastInvokeTime' = 0
    /\ lastArgs' = undefinedArgs
    /\ lastCallTime' = undefinedTime
    /\ lastThis' = undefinedArgs
    /\ timerId' = undefinedTimer
    /\ h' = HCancel
    /\ UNCHANGED <<config, result, stack, now>>

\* The caller calls cancel().
Cancel == h.ncancel < MaxCancels /\ cancel

\* Mutant of flush: with no timer pending it returns undefined.
flush_undefinedWhenIdle ==
    /\ LET hh == [h EXCEPT !.nflush = @ + 1, !.burstOps = TRUE] IN
       IF timerId = undefinedTimer
       THEN /\ h' = HRet(hh, "flush", undefinedResult, FALSE)
            /\ UNCHANGED <<lastArgs, lastThis, result, stack, timerId, lastInvokeTime>>
       ELSE trailingEdge(now, "flush", hh)
    /\ UNCHANGED <<config, lastCallTime, now, timers>>

\* flush()
flush ==
    /\ LET hh == [h EXCEPT !.nflush = @ + 1, !.burstOps = TRUE] IN
       IF timerId = undefinedTimer
       THEN /\ h' = HRet(hh, "flush", result, FALSE)
            /\ UNCHANGED <<lastArgs, lastThis, result, stack, timerId, lastInvokeTime>>
       ELSE trailingEdge(now, "flush", hh)
    /\ UNCHANGED <<config, lastCallTime, now, timers>>

\* The caller calls flush().
Flush == h.nflush < MaxFlushes /\ flush

\* One unit of time passes on the host's clock.  Timers that are due need
\* not have run: the host runs a callback at or after its due time.
Tick ==
    /\ now < MaxTime
    /\ now' = now + 1
    /\ UNCHANGED <<config, lastArgs, lastThis, result, stack, lastCallTime, timerId,
                   lastInvokeTime, timers, h>>

Next ==
    \/ Call(ArgsOf(h.ncalls + 1), ThisOf(h.ncalls + 1))
    \/ \E t \in timers : TimerExpired(t)
    \/ Cancel
    \/ Flush
    \/ Tick

Spec == Init /\ [][Next]_vars

----
\* debounce(f, wait) with default options.
DefaultOptions == [leading |-> FALSE, trailing |-> TRUE, maxWait |-> -1]

InitDebounce == \E w \in 0..MaxWaitArg : Constructed(debounce(w, DefaultOptions, FALSE))

SpecDebounce == InitDebounce /\ [][Next]_vars

\* No timer callback that is due is waiting to run.
TimersRan == \A t \in timers : t.due > now

\* The wait of the last call has elapsed and nothing but timer callbacks
\* happened since the burst began.
BurstOver ==
    /\ h.ncalls > 0
    /\ ~h.burstOps
    /\ now >= h.call.time + waitValue
    /\ TimersRan

\* C1: with default options, no call invokes f, and once wait has elapsed
\* after the last call of a burst (no cancel() or flush() in the burst, the
\* due timer callbacks have run) f has been invoked exactly once for the
\* burst, at least wait after the last call, with that call's arguments.
C1_BurstInvokedOnce ==
    /\ [](BurstOver =>
            /\ h.burstInv = 1
            /\ h.inv.ncalls = h.ncalls
            /\ h.inv.args = h.call.args
            /\ h.inv.time >= h.call.time + waitValue)
    /\ [][h'.ncalls > h.ncalls => h'.ninv = h.ninv]_vars

C1_Witness ==
    /\ BurstOver
    /\ h.burstCalls >= 2
    /\ h.burstInv = 1
    /\ h.inv.args = h.call.args

----
\* debounce with leading = false and no maxWait.
InitTrailingEdge ==
    \E w \in Waits, tr \in BOOLEAN, r \in BOOLEAN :
        Constructed(debounce(w, [leading |-> FALSE, trailing |-> tr, maxWait |-> -1], r))

SpecTrailingEdge == InitTrailingEdge /\ [][Next]_vars

\* C2: with leading = false and no maxWait, an invocation of f that flush()
\* did not make was made by a timer callback, at least wait after the most
\* recent call; no call invokes f, also when wait is 0.
C2_InvokedAfterWait ==
    (h.ninv > 0 /\ h.inv.site # "flush") =>
        /\ h.inv.site = "timer"
        /\ h.inv.time >= h.inv.callTime + waitValue

C2_Witness ==
    /\ h.inv.site = "timer"
    /\ h.ncalls >= 2
    /\ h.ncancel > 0
    /\ h.nflush > 0
    /\ waitValue = 0

----
\* throttle(f, wait) with default options and wait > 0.
ThrottleDefaults == [leading |-> TRUE, trailing |-> TRUE]

InitThrottle == \E w \in 1..MaxWaitArg : Constructed(throttle(w, ThrottleDefaults, FALSE))

SpecThrottle == InitThrottle /\ [][Next]_vars

\* C3: with throttle defaults and wait > 0, after calls and timer expiries
\* only, two successive invocations of f are at least wait apart.
C3_AtMostOncePerWait ==
    (h.ninv >= 2 /\ h.ncancel = 0 /\ h.nflush = 0) =>
        h.inv.time - h.inv.prevTime >= waitValue

----
\* trailing = true, with or without maxWait (throttle is the case maxWait = wait).
InitMaxWait ==
    \E w \in 0..MaxWaitArg, mw \in -1..MaxWaitArg, l \in BOOLEAN :
        Constructed(debounce(w, [leading |-> l, trailing |-> TRUE, maxWait |-> mw], FALSE))

SpecMaxWait == InitMaxWait /\ [][Next]_vars

\* A burst is going on: the last call is less than wait old, and neither
\* cancel() nor flush() was called since the burst began.
InBurst ==
    /\ h.burstStart >= 0
    /\ ~h.burstOps
    /\ now - h.call.time < waitValue

\* The later of the first call of the burst and the previous invocation.
WindowStart == Max(h.burstStart, h.inv.time)

\* C4 as stated: during a burst f is invoked in every window of length
\* maxWait that starts at the first call of the burst or at the previous
\* invocation.
C4_InvokedEveryMaxWait ==
    (maxWait # nullMaxWait /\ trailing /\ InBurst) => now - WindowStart <= maxWait

\* C4 amended: during a burst a call made maxWait or more after the window
\* start invokes f synchronously with its own arguments, so that no window
\* of length maxWait + wait goes without an invocation; without maxWait (and
\* leading = false) f is not invoked during the burst.
C4_InvokedAtFirstCallAfterMaxWait ==
    /\ []((maxWait # nullMaxWait /\ trailing /\ InBurst) =>
            now - WindowStart < maxWait + waitValue)
    /\ []((maxWait = nullMaxWait /\ ~leading /\ InBurst) => h.burstInv = 0)
    /\ [][(/\ maxWait # nullMaxWait /\ trailing /\ InBurst
           /\ now - WindowStart >= maxWait
           /\ h'.ncalls > h.ncalls)
          => (/\ h'.ninv = h.ninv + 1
              /\ h'.inv.site = "call"
              /\ h'.inv.args = h'.call.args
              /\ h'.inv.time = now)]_vars

C4_Witness ==
    /\ maxWait # nullMaxWait
    /\ trailing
    /\ ~leading
    /\ InBurst
    /\ h.burstCalls >= 3
    /\ h.inv.site = "call"
    /\ h.inv.time > Max(h.burstStart, h.inv.prevTime) + maxWait

----
\* C5: a call returns the value result holds when the call is done: f's
\* return value for the call's own arguments if the call invoked f, else the
\* return value of the most recent invocation (undefined if there was none).
C5_CallReturnsResult ==
    h.op = "call" =>
        /\ h.ret = result
        /\ h.call.ret = h.ret
        /\ IF h.invoked
           THEN /\ h.inv.ncalls = h.ncalls
                /\ h.inv.site = "call"
                /\ h.ret = func(h.call.this, h.call.args, h.ninv)
           ELSE h.ret = h.inv.ret

C5_Witness ==
    /\ h.op = "call"
    /\ ~h.invoked
    /\ h.ninv > 0
    /\ h.ncancel > 0
    /\ h.ret = h.inv.ret
    /\ h.ret # undefinedResult

\* C6: an invocation of f gets the arguments and the this-binding of the most
\* recent call made before it, never those of an earlier call.
C6_LastCallPayload ==
    h.ninv > 0 =>
        /\ h.inv.ncalls >= 1
        /\ h.inv.args = ArgsOf(h.inv.ncalls)
        /\ h.inv.this = ThisOf(h.inv.ncalls)

C6_Witness ==
    /\ h.inv.site = "timer"
    /\ h.inv.ncalls = 3
    /\ h.inv.args = ArgsOf(3)
    /\ h.inv.this = ThisOf(3)
    /\ h.burstCalls = 3

\* C7: after cancel() f is not invoked until the wrapper is called again; the
\* next call is a leading edge (with leading = true it invokes f itself,
\* however soon after the cancelled call it comes), and with trailing = true
\* the calls made after the cancel have been invoked once all timers ran.
C7_CancelThenFreshLeadingEdge ==
    /\ h.cancelNinv >= 0 => h.ninv = h.cancelNinv
    /\ (h.call.afterCancel /\ leading) => h.call.sync
    /\ (h.ncancel > 0 /\ h.callsSinceCancel > 0 /\ trailing /\ timers = {}) =>
            h.inv.ncalls = h.ncalls

C7_Witness ==
    /\ leading
    /\ trailing
    /\ h.ncancel > 0
    /\ h.callsSinceCancel = 2
    /\ h.ncalls = 3
    /\ h.ninv = 3
    /\ h.inv.site = "timer"
    /\ h.inv.ncalls = 3
    /\ timers = {}
    /\ waitValue >= 2

----
\* C8 as stated: flush() called while a timer is pending invokes f and
\* returns the value of that invocation.
C8_FlushInvokesWhenTimerPending ==
    [][(h'.nflush > h.nflush /\ pending) =>
            (h'.ninv = h.ninv + 1 /\ h'.ret = h'.inv.ret)]_vars

\* C8 amended: flush() called while a timer is pending and arguments are
\* pending (trailing = true) invokes f at once with those arguments and
\* returns its value; while a timer is pending with nothing to invoke it
\* invokes nothing, returns result and empties the timer slot; with no timer
\* pending it returns result, invokes nothing and changes no state.
C8_FlushInvokesPendingCall ==
    [][h'.nflush > h.nflush =>
        IF pending /\ trailing /\ lastArgs # undefinedArgs
        THEN /\ h'.ninv = h.ninv + 1
             /\ h'.inv.site = "flush"
             /\ h'.inv.time = now
             /\ h'.inv.args = lastArgs
             /\ h'.inv.this = lastThis
             /\ h'.inv.args = h.call.args
             /\ h'.ret = h'.inv.ret
             /\ result' = h'.ret
             /\ ~pending'
        ELSE /\ h'.ninv = h.ninv
             /\ h'.ret = result
             /\ result' = result
             /\ ~pending'
             /\ pending => (lastArgs' = undefinedArgs /\ lastThis' = undefinedArgs)
             /\ ~pending => UNCHANGED <<lastArgs, lastThis, result, lastCallTime,
                                        timerId, lastInvokeTime, timers, now>>]_vars

C8_Witness ==
    /\ h.op = "flush"
    /\ ~h.invoked
    /\ leading
    /\ trailing
    /\ h.ncalls = 1
    /\ h.ninv = 1
    /\ timers # {}
    /\ ~pending
    /\ h.ret = h.inv.ret

----
\* leading = true and trailing = true: debounce with {leading: true}, with or
\* without maxWait, and throttle with its defaults.
InitLeadingTrailing ==
    \E w \in Waits, mw \in -1..MaxWaitArg, r \in BOOLEAN :
        Constructed(debounce(w, [leading |-> TRUE, trailing |-> TRUE, maxWait |-> mw], r))

SpecLeadingTrailing == InitLeadingTrailing /\ [][Next]_vars

\* C9: with leading and trailing both true, a call that invoked f is not
\* invoked again by the timer: after a single call there is exactly one
\* invocation, made by the call, and an invocation by the timer delivers a
\* call that came after the previous invocation.
C9_NoTrailingAfterSingleCall ==
    /\ h.invSinceCall <= 1
    /\ h.call.sync => (h.inv.site = "call" /\ h.inv.ncalls = h.ncalls /\ h.invSinceCall = 1)
    /\ h.ncalls = 1 => (h.ninv = 1 /\ h.inv.site = "call")
    /\ h.inv.site = "timer" => (h.inv.ncalls >= 2 /\ ~h.call.sync)

C9_Witness ==
    /\ h.ncalls = 1
    /\ h.ninv = 1
    /\ h.op = "timer"
    /\ h.settled
    /\ h.nflush = 0
    /\ h.ncancel = 0
    /\ timers = {}
    /\ now >= waitValue
    /\ waitValue > 0

----
\* leading = true, trailing = false, no maxWait.
InitLeadingOnly ==
    \E w \in Waits, r \in BOOLEAN :
        Constructed(debounce(w, [leading |-> TRUE, trailing |-> FALSE, maxWait |-> -1], r))

SpecLeadingOnly == InitLeadingOnly /\ [][Next]_vars

\* C10: with leading = true, trailing = false and no maxWait (and no
\* flush()), a call made when no burst is going on invokes f and returns its
\* value, a call made before the burst settles invokes nothing and returns
\* the value of the burst's first call, and no timer expiry invokes f.
C10_LeadingOnly ==
    h.nflush = 0 =>
        /\ h.inv.site \in {"none", "call"}
        /\ h.ncalls > 0 =>
            IF h.call.fresh
            THEN /\ h.call.sync
                 /\ h.inv.ncalls = h.ncalls
                 /\ h.call.ret = func(h.call.this, h.call.args, h.ninv)
            ELSE /\ ~h.call.sync
                 /\ h.inv.ncalls < h.ncalls
                 /\ h.call.ret = h.inv.ret
                 /\ h.call.ret # undefinedResult

C10_Witness ==
    /\ h.nflush = 0
    /\ h.ncancel = 0
    /\ h.ncalls = 3
    /\ h.call.fresh
    /\ h.call.sync
    /\ h.ninv = 2
    /\ h.inv.site = "call"
    /\ waitValue > 0

----
\* C11: at most one timer callback scheduled by the instance is outstanding.
C11_AtMostOneTimer == Cardinality(timers) <= 1

\* C12: once cancel() has returned, no timer callback of the instance is
\* outstanding (until the wrapper is called again).
C12_NoTimerAfterCancel == h.op = "cancel" => timers = {}

\* C13: pending() is true exactly when a timer callback of the instance is
\* outstanding.
C13_PendingIffTimerOutstanding == pending <=> timers # {}

\* C14: once flush() has invoked the pending call, f is not invoked again
\* unless the wrapper is called again: the timer scheduled for the flushed
\* call invokes nothing when it runs.
C14_FlushedCallNotInvokedAgain ==
    [][(/\ h.inv.site = "flush"
        /\ h.inv.ncalls = h.ncalls
        /\ h'.ncalls = h.ncalls)
       => (h'.ninv = h.ninv /\ h'.inv = h.inv /\ result' = result)]_vars

C14_Witness ==
    /\ h.inv.site = "flush"
    /\ h.inv.ncalls = h.ncalls
    /\ h.ninv = 1
    /\ h.op = "timer"
    /\ timers = {}
    /\ waitValue > 0
    /\ now >= h.call.time + waitValue

----
\* trailing = true, a clock that keeps advancing and a host that runs every
\* timer callback that is due.  The caller makes its last call early enough
\* for the timer of that call to come due within the time the model covers.
CallInTime ==
    /\ now + Max(waitValue, FrameDelay) <= MaxTime
    /\ Call(ArgsOf(h.ncalls + 1), ThisOf(h.ncalls + 1))

NextEventually ==
    \/ CallInTime
    \/ \E t \in timers : TimerExpired(t)
    \/ Cancel
    \/ Flush
    \/ Tick

TimersFire == WF_vars(Tick) /\ WF_vars(\E t \in timers : TimerExpired(t))

SpecEventually == InitMaxWait /\ [][NextEventually]_vars /\ TimersFire

\* C15: with trailing = true, pending arguments do not stay pending forever,
\* and they stop being pending only when f is invoked with them, when a
\* later call replaces them, or when cancel() is called: a call that leaves
\* its arguments pending is eventually invoked with them or with those of a
\* later call, unless cancel() intervenes.
C15_PendingEventuallyInvoked ==
    /\ (lastArgs # undefinedArgs) ~> (lastArgs = undefinedArgs)
    /\ [][(lastArgs # undefinedArgs /\ lastArgs' # lastArgs) =>
            \/ h'.ninv = h.ninv + 1 /\ h'.inv.args \in {lastArgs, h'.call.args}
            \/ h'.ncalls = h.ncalls + 1 /\ lastArgs' = h'.call.args
            \/ h'.ncancel = h.ncancel + 1]_vars

\* The third call came right after an invocation forced by maxWait and was
\* invoked by the timer, wait after it was made.
C15_Witness ==
    /\ maxWait # nullMaxWait
    /\ ~leading
    /\ waitValue > 0
    /\ h.nflush = 0
    /\ h.ncancel = 0
    /\ h.ninv = 2
    /\ h.inv.site = "timer"
    /\ h.inv.ncalls = 3
    /\ h.inv.prevTime = h.inv.callTime
    /\ h.inv.time >= h.inv.callTime + waitValue

----
\* The caller repeats cancel() right after cancel(), or flush() right after
\* flush(), once it has made the MaxCancels (MaxFlushes) other ones.
CancelAgain == h.op = "cancel" /\ h.ncancel = MaxCancels /\ cancel
FlushAgain == h.op = "flush" /\ h.nflush = MaxFlushes /\ flush

NextRepeat == Next \/ CancelAgain \/ FlushAgain

SpecRepeat == Init /\ [][NextRepeat]_vars

\* The closure variables and the timers the instance has scheduled.
state == <<lastArgs, lastThis, result, lastCallTime, timerId, lastInvokeTime, timers>>

\* C16: cancel() right after cancel() changes nothing, and flush() right
\* after flush() changes nothing, invokes nothing and returns what the first
\* flush() returned.
C16_CancelFlushIdempotent ==
    [][/\ (h.op = "cancel" /\ h'.ncancel > h.ncancel) => UNCHANGED state
       /\ (h.op = "flush" /\ h'.nflush > h.nflush) =>
            (UNCHANGED state /\ h'.ninv = h.ninv /\ h'.ret = h.ret)]_vars

\* A second flush() after a flush() that invoked the pending call, and (in
\* another behaviour) a second cancel() after a cancel() of a pending call.
C16_Witness ==
    \/ /\ h.op = "flush"
       /\ h.nflush = 2
       /\ h.inv.site = "flush"
       /\ h.ret = h.inv.ret
       /\ timers # {}
    \/ /\ h.op = "cancel"
       /\ h.ncancel = 2
       /\ h.ncalls > 0
       /\ h.ninv = 0

----
\* C17: only a step that invokes f changes result (to the value f returned);
\* cancel() empties the timer slot and resets the pending arguments,
\* lastCallTime and lastInvokeTime, and leaves result as it is.
C17_ResultChangedOnlyByInvocation ==
    [][/\ result' # result => (h'.ninv = h.ninv + 1 /\ result' = h'.inv.ret)
       /\ h'.ncancel > h.ncancel =>
            /\ timerId' = undefinedTimer
            /\ lastArgs' = undefinedArgs
            /\ lastThis' = undefinedArgs
            /\ lastCallTime' = undefinedTime
            /\ lastInvokeTime' = 0
            /\ result' = result]_vars

\* cancel() of a pending call after an invocation, then a timer callback
\* that settles without invoking: result is still that invocation's value.
C17_Witness ==
    /\ h.op = "timer"
    /\ ~h.invoked
    /\ h.ncancel > 0
    /\ h.ncalls >= 2
    /\ h.ninv = 1
    /\ h.inv.ncalls = 1
    /\ result = h.inv.ret
    /\ result # undefinedResult

----
\* A wrapped callable that throws on the arguments of some of the calls.
ThrowSets == {bad \in SUBSET {ArgsOf(n) : n \in 1..MaxCalls} : bad # {}}

InitThrows ==
    \E w \in {0, MaxWaitArg - 1}, l \in BOOLEAN, tr \in BOOLEAN,
       mw \in {-1, MaxWaitArg}, bad \in ThrowSets :
        ConstructedThrowing(
            debounce(w, [leading |-> l, trailing |-> tr, maxWait |-> mw], FALSE), bad)

SpecThrows == InitThrows /\ [][Next]_vars

\* C18: when f throws in an invocation made by a call, a timer callback or
\* flush(), the operation ends with the exception, result keeps its value,
\* the pending arguments are cleared, lastInvokeTime is the time of the
\* attempt, and the timer slot is as after a successful invocation at that
\* site: holding a scheduled timer after a call, empty after a timer
\* callback or flush().
C18_ThrowLeavesStateConsistent ==
    [][(h'.ninv = h.ninv + 1 /\ h'.threw) =>
        /\ h'.ret = exception
        /\ h'.inv.args \in throwsOn
        /\ result' = result
        /\ lastArgs' = undefinedArgs
        /\ lastThis' = undefinedArgs
        /\ lastInvokeTime' = now
        /\ IF h'.op = "call"
           THEN /\ pending'
                /\ \E t \in timers' : t.id = timerId' /\ t \notin timers
                /\ lastCallTime' = now
           ELSE /\ ~pending'
                /\ lastCallTime' = lastCallTime]_vars

\* f returned for the first call and threw, in a timer callback, for a
\* later one: result is still the value of the first invocation.
C18_Witness ==
    /\ h.threw
    /\ h.op = "timer"
    /\ h.ninv = 2
    /\ result # undefinedResult
    /\ result = func(ThisOf(1), ArgsOf(1), 1)
    /\ ~pending
    /\ lastArgs = undefinedArgs

----
\* The system time is set backwards by d: Date.now() returns d less than
\* before.  The host's timers run on elapsed time, so each outstanding
\* timer still has the same delay to go: counted on Date.now() its due time
\* moves back with the clock.
ClockBack ==
    /\ h.nback < MaxBack
    /\ \E d \in 1..now :
        /\ now' = now - d
        /\ timers' = {[t EXCEPT !.due = @ - d] : t \in timers}
    /\ h' = [h EXCEPT !.nback = @ + 1]
    /\ UNCHANGED <<config, lastArgs, lastThis, result, stack, lastCallTime,
                   timerId, lastInvokeTime>>

\* Calls and timer callbacks under a clock that may be set backwards.
NextClock ==
    \/ CallInTime
    \/ \E t \in timers : TimerExpired(t)
    \/ Tick
    \/ ClockBack

\* debounce(f, wait) and debounce(f, wait, {leading, maxWait: wait}) with
\* trailing = true and wait > 0.
InitClock ==
    \E w \in 1..MaxWaitArg, l \in BOOLEAN :
        \E mw \in {-1, w} :
            Constructed(debounce(w, [leading |-> l, trailing |-> TRUE, maxWait |-> mw],
                                 FALSE))

SpecClock == InitClock /\ [][NextClock]_vars /\ TimersFire

\* The step is a run of a timer callback.
TimerStep == h'.op = "timer" /\ timers' # timers /\ now' = now

\* The clock reads less than it did at the last call.
ClockWentBack == lastCallTime # undefinedTime /\ now < lastCallTime

\* C19: when the clock reads less than lastCallTime, shouldInvoke is true;
\* a timer callback that runs then settles the burst and invokes the pending
\* call, a call made then with no timer pending is a leading edge, and
\* (trailing = true, timers fire, the clock advances) pending arguments never
\* stay pending forever.
C19_BackwardClockInvokes ==
    /\ [](ClockWentBack => shouldInvoke(now))
    /\ [][(ClockWentBack /\ TimerStep) =>
            /\ ~pending'
            /\ lastArgs' = undefinedArgs
            /\ lastArgs # undefinedArgs =>
                    (h'.ninv = h.ninv + 1 /\ h'.inv.args = lastArgs)]_vars
    /\ [][(ClockWentBack /\ ~pending /\ h'.ncalls = h.ncalls + 1) =>
            /\ pending'
            /\ lastInvokeTime' = now
            /\ IF leading
               THEN h'.call.sync /\ h'.inv.args = h'.call.args
               ELSE lastArgs' = h'.call.args /\ h'.ninv = h.ninv]_vars
    /\ (lastArgs # undefinedArgs) ~> (lastArgs = undefinedArgs)

\* The clock was set back while a call was pending and the timer callback
\* invoked the call at a clock reading before the time of the call.
C19_Witness ==
    /\ h.nback > 0
    /\ h.op = "timer"
    /\ h.invoked
    /\ h.inv.site = "timer"
    /\ h.inv.ncalls = h.ncalls
    /\ h.inv.time < h.inv.callTime

----
\* debounce(f) and debounce(f, undefined, options): wait omitted, on a host
\* that has window.requestAnimationFrame.
InitRAF == \E o \in DebounceOptions : Constructed(debounce(-1, o, TRUE))

SpecRAF == InitRAF /\ [][Next]_vars

\* C20: with wait omitted on a host with requestAnimationFrame, every timer
\* the instance schedules is a frame callback, never a setTimeout.
C20_DeferredThroughFrameCallback ==
    useRAF => \A t \in timers : t.kind = "raf"

----
\* Reentrant calls.  The callable of the test "supports recursive calls"
\* takes the next call from a queue and makes it on the debounced function
\* before it returns, at most once in each invocation; the first call comes
\* from the caller.  The host is single-threaded: while func runs, no timer
\* callback runs and the caller does nothing, but the clock goes on.

\* Mutant of FuncReturns: the pending arguments are cleared when func has
\* returned instead of before it is called.
FuncReturns_clearsArgs ==
    /\ stack # <<>>
    /\ result' = stack[Len(stack)].ret
    /\ stack' = SubSeq(stack, 1, Len(stack) - 1)
    /\ lastArgs' = undefinedArgs
    /\ lastThis' = undefinedArgs
    /\ h' = [h EXCEPT !.op = "return", !.ret = stack[Len(stack)].ret]
    /\ UNCHANGED <<config, lastCallTime, timerId, lastInvokeTime, now, timers>>

\* func returns to invokeFunc, which assigns the value to result.
FuncReturns ==
    /\ stack # <<>>
    /\ result' = stack[Len(stack)].ret
    /\ stack' = SubSeq(stack, 1, Len(stack) - 1)
    /\ h' = [h EXCEPT !.op = "return", !.ret = stack[Len(stack)].ret]
    /\ UNCHANGED <<config, lastArgs, lastThis, lastCallTime, timerId,
                   lastInvokeTime, now, timers>>

\* func, running and not having called yet, calls the debounced function.
FuncCalls ==
    /\ stack # <<>>
    /\ h.ncalls = stack[Len(stack)].calls
    /\ CallInTime

\* The caller calls when func is not running and no arguments are pending.
CallerCalls ==
    /\ stack = <<>>
    /\ lastArgs = undefinedArgs
    /\ CallInTime

\* The host runs a timer callback when func is not running.
HostRuns == stack = <<>> /\ \E t \in timers : TimerExpired(t)

\* The caller calls flush() when func is not running.
CallerFlushes == stack = <<>> /\ Flush

NextReentrant ==
    \/ CallerCalls
    \/ FuncCalls
    \/ FuncReturns
    \/ HostRuns
    \/ CallerFlushes
    \/ Tick

\* Every call may be followed by a call from inside func.
Reentering == {ArgsOf(n) : n \in 1..MaxCalls}

InitReentrant ==
    \E w \in 0..MaxWaitArg, l \in BOOLEAN : \E mw \in {-1, w} :
        ConstructedWith(debounce(w, [leading |-> l, trailing |-> TRUE, maxWait |-> mw],
                                 FALSE),
                        {}, Reentering)

\* Time passes, due timer callbacks run and func returns.
FairReentrant ==
    /\ WF_vars(Tick)
    /\ WF_vars(HostRuns)
    /\ WF_vars(FuncReturns)

SpecReentrant == InitReentrant /\ [][NextReentrant]_vars /\ FairReentrant

----
\* C22: between operations, pending arguments have a timer in the slot:
\* pending() is true right after every call, and an operation that empties
\* the slot (a timer callback or flush() at the trailing edge, cancel())
\* leaves no pending arguments.
C22_PendingArgsHaveTimer ==
    /\ [](lastArgs # undefinedArgs => pending)
    /\ [](h.op = "call" => pending)
    /\ [][(pending /\ ~pending') => lastArgs' = undefinedArgs]_vars

\* With trailing = false a call left its arguments pending and the timer
\* callback settled the burst: the slot is empty and so are the arguments.
C22_Witness ==
    /\ ~trailing
    /\ ~leading
    /\ h.ncalls >= 2
    /\ h.ninv = 0
    /\ h.op = "timer"
    /\ h.settled
    /\ ~pending
    /\ lastArgs = undefinedArgs

\* C23: every invocation of f delivers a call made after the call the
\* previous invocation delivered, so no call is passed to f twice, f is
\* not invoked with nothing pending, and f is invoked at most as often as
\* the wrapper is called.
C23_InvocationsNeverExceedCalls ==
    /\ [](h.ninv <= h.ncalls)
    /\ [][h'.ninv # h.ninv =>
            /\ h'.ninv = h.ninv + 1
            /\ h'.inv.ncalls > h.inv.ncalls
            /\ h'.inv.args = ArgsOf(h'.inv.ncalls)
            /\ h'.inv.args \in {lastArgs, h'.call.args}]_vars

\* Every call was invoked, and a timer that flush() or the tight-loop branch
\* left scheduled ran afterwards without invoking anything.
C23_Witness ==
    /\ h.ncalls = 3
    /\ h.ninv = 3
    /\ h.nflush > 0
    /\ h.op = "timer"
    /\ ~h.invoked
    /\ ~pending
    /\ timers = {}

====
